---- MODULE Spec2Model ----
(***************************************************************************)
(* A model of NetworkGraphBuilder (src/src/network_graph.py): the builder  *)
(* object with its data / graph / map fields, the four operations          *)
(* build_graph, scale_nodes, color_nodes and build_map, and the networkx   *)
(* centrality measures scale_nodes dispatches to.                          *)
(*                                                                         *)
(* Numbers that Python holds as floats are exact rationals [num, den]      *)
(* here; the eigenvector scores, which are irrational, are symbolic.       *)
(***************************************************************************)
EXTENDS Integers, Sequences, FiniteSets, TLC

----------------------------------------------------------------------------
(* Bounds of the model. *)

\* longest edge table handed to the builder
MaxRows == 2
\* number of calls made on one builder
MaxCalls == 3

----------------------------------------------------------------------------
(* Exact rationals. *)

RECURSIVE GCD(_, _)
GCD(a, b) == IF b = 0 THEN a ELSE GCD(b, a % b)

Abs(a) == IF a < 0 THEN -a ELSE a

\* the rational n/d in lowest terms, d > 0
Rat(n, d) ==
    LET g == GCD(Abs(n), Abs(d))
        s == IF d < 0 THEN -1 ELSE 1
    IN  [kind |-> "rat", num |-> (s * n) \div g, den |-> (s * d) \div g]

RAdd(x, y) == Rat(x.num * y.den + y.num * x.den, x.den * y.den)
RMul(x, y) == Rat(x.num * y.num, x.den * y.den)
RLeq(x, y) == x.num * y.den <= y.num * x.den
RLess(x, y) == x.num * y.den < y.num * x.den
RMax(x, y) == IF RLess(x, y) THEN y ELSE x

Zero == Rat(0, 1)
One == Rat(1, 1)

----------------------------------------------------------------------------
(* Sequences and partial functions. *)

\* Python's None, as a field value
None == [isNone |-> TRUE]
\* no exception raised
NoError == "no error"

Range(s) == {s[i] : i \in 1..Len(s)}

\* the function f with key k set to v, k added to the domain when missing
Put(f, k, v) == [x \in (DOMAIN f) \cup {k} |-> IF x = k THEN v ELSE f[x]]

EmptyFn == [x \in {} |-> 0]

\* s with x appended unless it is already a member
AddOnce(s, x) == IF x \in Range(s) THEN s ELSE Append(s, x)

RECURSIVE SumOver(_, _)
SumOver(S, f) ==
    IF S = {} THEN Zero
    ELSE LET x == CHOOSE y \in S : TRUE
         IN  RAdd(f[x], SumOver(S \ {x}, f))

----------------------------------------------------------------------------
(* The edge table: rows of (Exporter, Importer, Weight), drawn from a      *)
(* small set of trade records: a pair twice with different weights, a      *)
(* reciprocated pair, a self-loop, and "ZZ", a code without a row in the   *)
(* country reference table, as exporter and as importer.                   *)

TradeRecords ==
    { [Exporter |-> "A", Importer |-> "B", Weight |-> 0],
      [Exporter |-> "A", Importer |-> "B", Weight |-> 250],
      [Exporter |-> "B", Importer |-> "A", Weight |-> 250],
      [Exporter |-> "A", Importer |-> "A", Weight |-> 0],
      [Exporter |-> "B", Importer |-> "ZZ", Weight |-> 250],
      [Exporter |-> "ZZ", Importer |-> "A", Weight |-> 0] }

Tables == UNION {[1..n -> TradeRecords] : n \in 0..MaxRows}

\* the codes a caller highlights: one on the map, one not
Selectable == {"A", "ZZ"}

----------------------------------------------------------------------------
(* The directed graph (networkx.DiGraph).                                  *)
(*   nodes  : the nodes in insertion order                                 *)
(*   edges  : the (u, v) pairs in the order they were first added          *)
(*   Weight : edge -> its Weight attribute, for the edges that carry one   *)
(*   size   : node -> its size attribute, for the nodes that carry one     *)
(*   color  : node -> its color attribute, for the nodes that carry one    *)

EmptyGraph ==
    [nodes |-> <<>>, edges |-> <<>>, Weight |-> EmptyFn,
     size |-> EmptyFn, color |-> EmptyFn]

\* (variant of AddEdge: a row whose endpoints coincide is skipped)
AddEdge_DropLoops(g, u, v) ==
    IF u = v THEN g
    ELSE [g EXCEPT !.nodes = AddOnce(AddOnce(@, u), v),
                   !.edges = AddOnce(@, <<u, v>>)]

\* DiGraph.add_edge(u, v): u, then v, become nodes; the edge is added once
AddEdge(g, u, v) ==
    [g EXCEPT !.nodes = AddOnce(AddOnce(@, u), v),
              !.edges = AddOnce(@, <<u, v>>)]

\* G[u][v].update(Weight=w): a later row overwrites the attribute
SetWeight(g, u, v, w) == [g EXCEPT !.Weight = Put(@, <<u, v>>, w)]

\* nx.from_pandas_edgelist(data, "Exporter", "Importer", edge_attr, DiGraph())
RECURSIVE FromEdgelist(_, _, _)
FromEdgelist(t, weighted, n) ==
    IF n = 0 THEN EmptyGraph
    ELSE LET g == FromEdgelist(t, weighted, n - 1)
             r == t[n]
             h == AddEdge(g, r.Exporter, r.Importer)
         IN  IF weighted THEN SetWeight(h, r.Exporter, r.Importer, r.Weight)
             ELSE h

\* (variant of from_pandas_edgelist: edge_attr is passed on both branches)
from_pandas_edgelist_KeepWeight(t, weighted) == FromEdgelist(t, TRUE, Len(t))

from_pandas_edgelist(t, weighted) == FromEdgelist(t, weighted, Len(t))

NodeSet(g) == Range(g.nodes)
EdgeSet(g) == Range(g.edges)

Succ(g, u) == {v \in NodeSet(g) : <<u, v>> \in EdgeSet(g)}
Pred(g, v) == {u \in NodeSet(g) : <<u, v>> \in EdgeSet(g)}

\* G.edges(): grouped by source in node order, then by insertion order
RECURSIVE EdgesFrom(_, _)
EdgesFrom(g, i) ==
    IF i > Len(g.nodes) THEN <<>>
    ELSE SelectSeq(g.edges, LAMBDA e : e[1] = g.nodes[i]) \o EdgesFrom(g, i + 1)

EdgeView(g) == EdgesFrom(g, 1)

----------------------------------------------------------------------------
(* Shortest paths (breadth-first search, every edge of length 1). *)

\* node -> distance, for the nodes first met from the frontier F at depth d
RECURSIVE BFS(_, _, _, _)
BFS(E, F, seen, d) ==
    IF F = {} THEN << >>
    ELSE LET nxt == {e[2] : e \in {x \in E : x[1] \in F}} \ seen
         IN  [n \in F |-> d] @@ BFS(E, nxt, seen \cup nxt, d + 1)

\* t -> the length of a shortest path from s to t, for the t reachable from s
DistFrom(g, s) == BFS(EdgeSet(g), {s}, {s}, 0)

\* s -> DistFrom(g, s), for the first i nodes
RECURSIVE DistUpTo(_, _)
DistUpTo(g, i) ==
    IF i = 0 THEN << >>
    ELSE (g.nodes[i] :> DistFrom(g, g.nodes[i])) @@ DistUpTo(g, i - 1)

AllDist(g) == DistUpTo(g, Len(g.nodes))

RECURSIVE SumInt(_, _)
SumInt(S, f) ==
    IF S = {} THEN 0
    ELSE LET x == CHOOSE y \in S : TRUE
         IN  f[x] + SumInt(S \ {x}, f)

\* the number of shortest paths from s to t, D the distances from s
RECURSIVE Sigma(_, _, _, _)
Sigma(E, D, s, t) ==
    IF s = t THEN 1
    ELSE LET P == {u \in DOMAIN D : <<u, t>> \in E /\ D[u] + 1 = D[t]}
         IN  SumInt(P, [u \in P |-> Sigma(E, D, s, u)])

----------------------------------------------------------------------------
(* The centrality measures of networkx, as scale_nodes calls them: one     *)
(* argument, every keyword at its default.                                 *)

InDegree(g, n) == Cardinality(Pred(g, n))
OutDegree(g, n) == Cardinality(Succ(g, n))
\* DiGraph.degree: in-degree + out-degree, so a self-loop counts twice
Degree(g, n) == InDegree(g, n) + OutDegree(g, n)

\* a graph of at most one node scores 1; else the count d over (n - 1)
DegreeScore(g, d) ==
    IF Len(g.nodes) <= 1 THEN One ELSE Rat(d, Len(g.nodes) - 1)

degree_centrality(g) == [n \in NodeSet(g) |-> DegreeScore(g, Degree(g, n))]
in_degree_centrality(g) == [n \in NodeSet(g) |-> DegreeScore(g, InDegree(g, n))]
out_degree_centrality(g) == [n \in NodeSet(g) |-> DegreeScore(g, OutDegree(g, n))]

\* closeness on the reversed graph (distances TO n), Wasserman-Faust scaled
closeness_centrality(g) ==
    LET D == AllDist(g)
        len_G == Len(g.nodes)
    IN  [n \in NodeSet(g) |->
            LET sp == {u \in NodeSet(g) : n \in DOMAIN D[u]}
                totsp == SumInt(sp, [u \in sp |-> D[u][n]])
            IN  IF totsp > 0 /\ len_G > 1
                THEN RMul(Rat(Cardinality(sp) - 1, totsp),
                          Rat(Cardinality(sp) - 1, len_G - 1))
                ELSE Zero]

\* the share of the shortest s-t paths that pass through v
PairDependency(E, D, s, t, v) ==
    IF /\ t \in DOMAIN D[s]
       /\ v \in DOMAIN D[s]
       /\ t \in DOMAIN D[v]
       /\ D[s][v] + D[v][t] = D[s][t]
    THEN Rat(Sigma(E, D[s], s, v) * Sigma(E, D[v], v, t), Sigma(E, D[s], s, t))
    ELSE Zero

\* Brandes betweenness, endpoints excluded, normalised for a directed
\* graph by 1 / ((n - 1)(n - 2)) when n > 2 and left unscaled otherwise
betweenness_centrality(g) ==
    LET D == AllDist(g)
        E == EdgeSet(g)
        n == Len(g.nodes)
    IN  [v \in NodeSet(g) |->
            LET P == {p \in NodeSet(g) \X NodeSet(g) :
                         p[1] # p[2] /\ p[1] # v /\ p[2] # v}
                raw == SumOver(P, [p \in P |-> PairDependency(E, D, p[1], p[2], v)])
            IN  IF n <= 2 THEN raw ELSE RMul(raw, Rat(1, (n - 1) * (n - 2)))]

(* Eigenvector centrality: power iteration with A + I from the uniform     *)
(* vector, at most 100 rounds, tolerance 1e-6.  The iteration converges    *)
(* when the largest eigenvalue is simple enough to dominate: no strongly   *)
(* connected component of largest spectral radius reaches another one.     *)
(* Otherwise (every acyclic graph is such a case) the error decays like    *)
(* 1/k and PowerIterationFailedConvergence is raised.                      *)

\* the strongly connected components, D the all-pairs distances
Components(g, D) ==
    {{u \in DOMAIN D[n] : n \in DOMAIN D[u]} : n \in NodeSet(g)}

\* the order of the spectral radius of a component among those a graph of
\* at most three nodes can have beside another component: 0 (one node, no
\* loop) < 1 (one node with a loop, or a 2-cycle) < golden ratio (2-cycle,
\* one loop) < 2 (2-cycle, two loops) < a component that is the whole graph
RadiusRank(g, c) ==
    LET loops == Cardinality({u \in c : <<u, u>> \in EdgeSet(g)})
    IN  CASE Cardinality(c) = 1 -> IF loops = 1 THEN 2 ELSE 0
          [] Cardinality(c) = 2 -> 2 + loops
          [] OTHER -> 5

PowerIterationConverges(g) ==
    LET D == AllDist(g)
        C == Components(g, D)
        top == {c \in C : \A d \in C : RadiusRank(g, d) <= RadiusRank(g, c)}
    IN  \A c \in top : \A d \in top \ {c} :
            \A u \in c : d \cap DOMAIN D[u] = {}

\* the scores are irrational: each is the symbol "the eigenvector score
\* of n", a Euclidean-normalised non-negative entry and so within [0, 1]
eigenvector_centrality(g) ==
    [n \in NodeSet(g) |-> [kind |-> "eig", node |-> n, times |-> 1]]

----------------------------------------------------------------------------
(* The builder's configuration (NetworkGraphBuilder.__init__ defaults) and *)
(* the literals of build_map.                                              *)

exporter_color == "#1f77b4"
importer_color == "#ff7f0e"
default_color == "rgb(0,0,0)"

PairEdgeColor == "#9467bd"
ExporterEdgeColor == "#1f77b4"
ImporterEdgeColor == "#ff7f0e"
DefaultEdgeColor == "grey"

DefaultNodeSize == 8
DefaultNodeColor == "grey"
FallbackLabel == "XX"
FallbackPosition == <<0, 0>>
\* width = weight * 0.01, i.e. weight / WidthDivisor
WidthDivisor == 100
SizeFactor == 100

\* the country reference table: no row for "ZZ"
Countries ==
    << [country |-> "A", name |-> "Aland", longitude |-> 20, latitude |-> 60],
       [country |-> "B", name |-> "Benin", longitude |-> 2, latitude |-> 9] >>

\* the method names a caller passes: the six keys of centrality_methods and
\* "in-degree", which is not a key
MethodNames ==
    {"degree", "indegree", "outdegree", "eigenvector", "closeness",
     "betweenness", "in-degree"}

\* (variant of centrality_methods: the betweenness entry is missing)
centrality_methods_NoBetweenness ==
    {"degree", "indegree", "outdegree", "eigenvector", "closeness"}

centrality_methods ==
    {"degree", "indegree", "outdegree", "eigenvector", "closeness", "betweenness"}

\* centrality_methods[scale_method](self.graph), when it returns
Centrality(m, g) ==
    CASE m = "degree" -> degree_centrality(g)
      [] m = "indegree" -> in_degree_centrality(g)
      [] m = "outdegree" -> out_degree_centrality(g)
      [] m = "eigenvector" -> eigenvector_centrality(g)
      [] m = "closeness" -> closeness_centrality(g)
      [] m = "betweenness" -> betweenness_centrality(g)

\* the exception centrality_methods[scale_method](self.graph) raises, if any
CentralityError(m, g) ==
    IF m = "eigenvector" /\ ~PowerIterationConverges(g)
    THEN "PowerIterationFailedConvergence"
    ELSE NoError

\* value * 100
Times100(v) ==
    IF v.kind = "rat" THEN RMul(Rat(SizeFactor, 1), v)
    ELSE [v EXCEPT !.times = SizeFactor * @]

----------------------------------------------------------------------------
(* The state: one NetworkGraphBuilder and the outcome of the last call.    *)

VARIABLES
    data,     \* self.data: None or the edge table [rows]
    graph,    \* self.graph: None or the DiGraph
    map,      \* self.map: None or the figure [traces]
    last,     \* the last call: its name, arguments and the exception raised
    calls     \* number of calls made so far

vars == <<data, graph, map, last, calls>>

Returned(op, args) == [op |-> op, args |-> args, raised |-> NoError]
Raised(op, args, e) == [op |-> op, args |-> args, raised |-> e]

\* after NetworkGraphBuilder(data, countries): main passes data=None
Init ==
    /\ data \in {None} \cup {[rows |-> t] : t \in Tables}
    /\ graph = None
    /\ map = None
    /\ last = Returned("__init__", <<>>)
    /\ calls = 0

\* (variant of FromEdgelist: the rows are added to a given graph)
RECURSIVE FromEdgelist_Onto(_, _, _, _)
FromEdgelist_Onto(g0, t, weighted, n) ==
    IF n = 0 THEN g0
    ELSE LET g == FromEdgelist_Onto(g0, t, weighted, n - 1)
             r == t[n]
             h == AddEdge(g, r.Exporter, r.Importer)
         IN  IF weighted THEN SetWeight(h, r.Exporter, r.Importer, r.Weight)
             ELSE h

\* build_graph returned; replaced is the object self.graph referred to
\* before the assignment, which nothing refers to afterwards
Rebuilt(args, old) ==
    [op |-> "build_graph", args |-> args, raised |-> NoError, replaced |-> old]

\* (variant of build_graph: the rows are added to the graph already there)
build_graph_OnOldGraph(weighted) ==
    /\ calls < MaxCalls
    /\ calls' = calls + 1
    /\ IF data = None
       THEN /\ last' = Raised("build_graph", <<weighted>>, "TypeError")
            /\ UNCHANGED <<data, graph, map>>
       ELSE /\ graph' = FromEdgelist_Onto(IF graph = None THEN EmptyGraph
                                          ELSE graph,
                                          data.rows, weighted, Len(data.rows))
            /\ last' = Rebuilt(<<weighted>>, graph)
            /\ UNCHANGED <<data, map>>

build_graph(weighted) ==
    /\ calls < MaxCalls
    /\ calls' = calls + 1
    /\ IF data = None
       THEN \* from_pandas_edgelist subscripts None
            /\ last' = Raised("build_graph", <<weighted>>, "TypeError")
            /\ UNCHANGED <<data, graph, map>>
       ELSE /\ graph' = from_pandas_edgelist(data.rows, weighted)
            /\ last' = Rebuilt(<<weighted>>, graph)
            /\ UNCHANGED <<data, map>>

\* (variant of SetSizes: the score is stored without the scale-up)
SetSizes_Unscaled(g, cent) ==
    [g EXCEPT !.size = [n \in (DOMAIN @) \cup (DOMAIN cent) |->
                           IF n \in DOMAIN cent THEN cent[n] ELSE @[n]]]

\* for node, value in cent.items(): set_node_attributes(G, {node: value * 100}, "size")
SetSizes(g, cent) ==
    [g EXCEPT !.size = [n \in (DOMAIN @) \cup (DOMAIN cent) |->
                           IF n \in DOMAIN cent THEN Times100(cent[n]) ELSE @[n]]]

\* "not self.graph": None, or a graph of no nodes (len(G) = 0)
Falsy(g) == g = None \/ Len(g.nodes) = 0

\* (variant of scale_nodes: a falsy graph makes the call return silently)
scale_nodes_SilentReturn(scale_method) ==
    /\ calls < MaxCalls
    /\ calls' = calls + 1
    /\ IF Falsy(graph)
       THEN /\ last' = Returned("scale_nodes", <<scale_method>>)
            /\ UNCHANGED <<data, graph, map>>
       ELSE IF scale_method \in centrality_methods
       THEN IF CentralityError(scale_method, graph) # NoError
            THEN /\ last' = Raised("scale_nodes", <<scale_method>>,
                                   CentralityError(scale_method, graph))
                 /\ UNCHANGED <<data, graph, map>>
            ELSE /\ graph' = SetSizes(graph, Centrality(scale_method, graph))
                 /\ last' = Returned("scale_nodes", <<scale_method>>)
                 /\ UNCHANGED <<data, map>>
       ELSE /\ last' = Returned("scale_nodes", <<scale_method>>)
            /\ UNCHANGED <<data, graph, map>>

scale_nodes(scale_method) ==
    /\ calls < MaxCalls
    /\ calls' = calls + 1
    /\ IF Falsy(graph)
       THEN /\ last' = Raised("scale_nodes", <<scale_method>>, "ValueError")
            /\ UNCHANGED <<data, graph, map>>
       ELSE IF scale_method \in centrality_methods
       THEN IF CentralityError(scale_method, graph) # NoError
            THEN /\ last' = Raised("scale_nodes", <<scale_method>>,
                                   CentralityError(scale_method, graph))
                 /\ UNCHANGED <<data, graph, map>>
            ELSE /\ graph' = SetSizes(graph, Centrality(scale_method, graph))
                 /\ last' = Returned("scale_nodes", <<scale_method>>)
                 /\ UNCHANGED <<data, map>>
       ELSE /\ last' = Returned("scale_nodes", <<scale_method>>)
            /\ UNCHANGED <<data, graph, map>>

\* (variant of NodeColor: importer membership is tested first)
NodeColor_ImporterFirst(n, exporters, importers) ==
    IF n \in importers THEN importer_color
    ELSE IF n \in exporters THEN exporter_color
    ELSE default_color

NodeColor(n, exporters, importers) ==
    IF n \in exporters THEN exporter_color
    ELSE IF n \in importers THEN importer_color
    ELSE default_color

\* (variant of color_nodes: writing the colour replaces the node's attributes)
color_nodes_DropsSize(exporters, importers) ==
    /\ calls < MaxCalls
    /\ calls' = calls + 1
    /\ IF graph = None
       THEN /\ last' = Raised("color_nodes", <<exporters, importers>>,
                              "AttributeError")
            /\ UNCHANGED <<data, graph, map>>
       ELSE /\ graph' = [graph EXCEPT !.color =
                            [n \in NodeSet(graph) |->
                                NodeColor(n, exporters, importers)],
                                      !.size = EmptyFn]
            /\ last' = Returned("color_nodes", <<exporters, importers>>)
            /\ UNCHANGED <<data, map>>

color_nodes(exporters, importers) ==
    /\ calls < MaxCalls
    /\ calls' = calls + 1
    /\ IF graph = None
       THEN \* None has no attribute "nodes"
            /\ last' = Raised("color_nodes", <<exporters, importers>>,
                              "AttributeError")
            /\ UNCHANGED <<data, graph, map>>
       ELSE /\ graph' = [graph EXCEPT !.color =
                            [n \in NodeSet(graph) |->
                                NodeColor(n, exporters, importers)]]
            /\ last' = Returned("color_nodes", <<exporters, importers>>)
            /\ UNCHANGED <<data, map>>

\* countries.loc[countries["country"] == node]: the matching rows, in order
Match(countries, node) == SelectSeq(countries, LAMBDA r : r.country = node)

\* (variant of NodePos: a miss takes the first row of the table)
NodePos_FirstRow(countries, node) ==
    LET match == Match(countries, node)
    IN  IF match # <<>> THEN <<match[1].longitude, match[1].latitude>>
        ELSE <<countries[1].longitude, countries[1].latitude>>

\* node_pos[node]
NodePos(countries, node) ==
    LET match == Match(countries, node)
    IN  IF match # <<>> THEN <<match[1].longitude, match[1].latitude>>
        ELSE FallbackPosition

\* the entry of node_names for node
NodeName(countries, node) ==
    LET match == Match(countries, node)
    IN  IF match # <<>> THEN match[1].name ELSE FallbackLabel

\* (variant of NodeSize: the size attribute is not read)
NodeSize_AlwaysDefault(g, node) == Rat(DefaultNodeSize, 1)

\* self.graph.nodes[node].get("size", 8)
NodeSize(g, node) ==
    IF node \in DOMAIN g.size THEN g.size[node] ELSE Rat(DefaultNodeSize, 1)

\* self.graph.nodes[node].get("color", "grey")
NodeColorAttr(g, node) ==
    IF node \in DOMAIN g.color THEN g.color[node] ELSE DefaultNodeColor

\* (variant of EdgeColor: the exporter rule is tested before the pair rule)
EdgeColor_ExporterFirst(src, dst, ex_code, im_code) ==
    IF src = ex_code THEN ExporterEdgeColor
    ELSE IF src = ex_code /\ dst = im_code THEN PairEdgeColor
    ELSE IF dst = im_code THEN ImporterEdgeColor
    ELSE DefaultEdgeColor

EdgeColor(src, dst, ex_code, im_code) ==
    IF src = ex_code /\ dst = im_code THEN PairEdgeColor
    ELSE IF src = ex_code THEN ExporterEdgeColor
    ELSE IF dst = im_code THEN ImporterEdgeColor
    ELSE DefaultEdgeColor

\* (variant of EdgeWidth: the floor of 1 is missing)
EdgeWidth_NoFloor(g, e) ==
    LET weight == IF e \in DOMAIN g.Weight THEN g.Weight[e] ELSE 1
    IN  Rat(weight, WidthDivisor)

\* weight = self.graph[src][dst].get("Weight", 1); max(1, weight * 0.01)
EdgeWidth(g, e) ==
    LET weight == IF e \in DOMAIN g.Weight THEN g.Weight[e] ELSE 1
    IN  RMax(One, Rat(weight, WidthDivisor))

\* one go.Scattergeo(mode="lines") of the loop over self.graph.edges()
EdgeTrace(g, countries, e, ex_code, im_code) ==
    LET p0 == NodePos(countries, e[1])
        p1 == NodePos(countries, e[2])
    IN  [mode |-> "lines",
         lon |-> <<p0[1], p1[1]>>,
         lat |-> <<p0[2], p1[2]>>,
         width |-> EdgeWidth(g, e),
         color |-> EdgeColor(e[1], e[2], ex_code, im_code)]

\* the go.Scattergeo(mode="markers") of all nodes
NodeTrace(g, countries) ==
    [mode |-> "markers",
     lon |-> [i \in 1..Len(g.nodes) |-> NodePos(countries, g.nodes[i])[1]],
     lat |-> [i \in 1..Len(g.nodes) |-> NodePos(countries, g.nodes[i])[2]],
     size |-> [i \in 1..Len(g.nodes) |-> NodeSize(g, g.nodes[i])],
     color |-> [i \in 1..Len(g.nodes) |-> NodeColorAttr(g, g.nodes[i])],
     text |-> [i \in 1..Len(g.nodes) |-> NodeName(countries, g.nodes[i])]]

\* (variant of Figure: the node primitive is put before the line primitives)
Figure_NodesFirst(g, countries, ex_code, im_code) ==
    LET ev == EdgeView(g)
    IN  <<NodeTrace(g, countries)>>
        \o [i \in 1..Len(ev) |-> EdgeTrace(g, countries, ev[i], ex_code, im_code)]

\* go.Figure(edge_traces + [node_trace])
Figure(g, countries, ex_code, im_code) ==
    LET ev == EdgeView(g)
    IN  [i \in 1..Len(ev) |-> EdgeTrace(g, countries, ev[i], ex_code, im_code)]
        \o <<NodeTrace(g, countries)>>

\* (variant of build_map: the size read for a node is stored on the node)
build_map_StoresDefaults(countries, exporter_sel, importer_sel) ==
    /\ calls < MaxCalls
    /\ calls' = calls + 1
    /\ IF graph = None
       THEN /\ last' = Raised("build_map", <<exporter_sel, importer_sel>>,
                              "AttributeError")
            /\ UNCHANGED <<data, graph, map>>
       ELSE /\ map' = [traces |-> Figure(graph, countries, exporter_sel, importer_sel)]
            /\ graph' = [graph EXCEPT !.size =
                            [n \in NodeSet(graph) |-> NodeSize(graph, n)]]
            /\ last' = Returned("build_map", <<exporter_sel, importer_sel>>)
            /\ UNCHANGED data

build_map(countries, exporter_sel, importer_sel) ==
    /\ calls < MaxCalls
    /\ calls' = calls + 1
    /\ IF graph = None
       THEN \* None has no attribute "nodes"
            /\ last' = Raised("build_map", <<exporter_sel, importer_sel>>,
                              "AttributeError")
            /\ UNCHANGED <<data, graph, map>>
       ELSE /\ map' = [traces |-> Figure(graph, countries, exporter_sel, importer_sel)]
            /\ last' = Returned("build_map", <<exporter_sel, importer_sel>>)
            /\ UNCHANGED <<data, graph>>

Next ==
    \/ \E weighted \in BOOLEAN : build_graph(weighted)
    \/ \E m \in MethodNames : scale_nodes(m)
    \/ \E e \in Selectable, i \in Selectable : color_nodes({e}, {i})
    \/ \E e \in Selectable, i \in Selectable : build_map(Countries, e, i)

Spec == Init /\ [][Next]_vars

----------------------------------------------------------------------------
(* The builder as main uses it: constructed with data=None and handed a    *)
(* non-empty filtered table before the graph is (re)built.                 *)

\* the tables of one row
NewTables == {t \in Tables : Len(t) = 1}

\* graph_builder.data = filtered_data
SetData(t) ==
    /\ data' = [rows |-> t]
    /\ data' # data
    /\ UNCHANGED <<graph, map, last, calls>>

InitReload == Init /\ data = None

NextReload ==
    \/ Next
    \/ \E t \in NewTables : SetData(t)

SpecReload == InitReload /\ [][NextReload]_vars

----------------------------------------------------------------------------
(* The query layer: CITESDataManager.filter_by_taxon over the trade        *)
(* records of the parquet file, applied to bounded sets of records.        *)

MaxRecords == 3

\* Python's None where the other values are strings (term, purpose, source)
Unset == "None"

\* a NULL column value
Null == "NULL"

\* trade records: one pair in two units, one pair twice in one unit, an
\* importer-reported record, another pair and another taxon
Shipments ==
    { [Taxon |-> "Panthera leo", ReporterType |-> "E", Year |-> 2001,
       Term |-> "skins", Purpose |-> "T", Source |-> "W",
       Exporter |-> "A", Importer |-> "B", Unit |-> "kg", Quantity |-> 100],
      [Taxon |-> "Panthera leo", ReporterType |-> "E", Year |-> 2001,
       Term |-> "skins", Purpose |-> "T", Source |-> "W",
       Exporter |-> "A", Importer |-> "B", Unit |-> Null, Quantity |-> 5],
      [Taxon |-> "Panthera leo", ReporterType |-> "E", Year |-> 2005,
       Term |-> "skins", Purpose |-> "H", Source |-> "W",
       Exporter |-> "A", Importer |-> "B", Unit |-> "kg", Quantity |-> 150],
      [Taxon |-> "Panthera leo", ReporterType |-> "I", Year |-> 2001,
       Term |-> "skins", Purpose |-> "T", Source |-> "W",
       Exporter |-> "A", Importer |-> "B", Unit |-> "kg", Quantity |-> 40],
      [Taxon |-> "Panthera leo", ReporterType |-> "E", Year |-> 2001,
       Term |-> "live", Purpose |-> "T", Source |-> "C",
       Exporter |-> "B", Importer |-> "ZZ", Unit |-> "kg", Quantity |-> 250],
      [Taxon |-> "Loxodonta africana", ReporterType |-> "E", Year |-> 2001,
       Term |-> "skins", Purpose |-> "T", Source |-> "W",
       Exporter |-> "ZZ", Importer |-> "A", Unit |-> "kg", Quantity |-> 7] }

\* the contents the parquet file may have
Datasets == {S \in SUBSET Shipments : Cardinality(S) <= MaxRecords}

Taxa == {"Panthera leo", "Loxodonta africana"}
YearRanges == {None, [lo |-> 2000, hi |-> 2003]}
Terms == {Unset, "ALL", "skins"}
Purposes == {Unset, "T"}
Sources == {Unset, "ALL", "W"}

\* x != "ALL" and x != None
Given(x) == x # "ALL" /\ x # Unset

\* the optional clauses appended to the query text, in order
Clauses(year_range, term, purpose, source) ==
    (IF year_range # None THEN <<"year">> ELSE <<>>)
    \o (IF Given(term) THEN <<"term">> ELSE <<>>)
    \o (IF Given(purpose) THEN <<"purpose">> ELSE <<>>)
    \o (IF Given(source) THEN <<"source">> ELSE <<>>)

\* query += "group by ..." has no leading space: after the year clause,
\* which ends in "... is not null", the text reads "nullgroup by" and the
\* statement does not parse; after 'E' or ? the tokens stay apart
ParserException(clauses) ==
    clauses # <<>> /\ clauses[Len(clauses)] = "year"

\* the WHERE clause
Matches(r, taxon, year_range, term, purpose, source) ==
    /\ r.Taxon = taxon
    /\ r.ReporterType = "E"
    /\ year_range # None =>
          /\ r.Year >= year_range.lo /\ r.Year <= year_range.hi
          /\ r.Exporter # Null /\ r.Importer # Null
    /\ Given(term) => r.Term = term
    /\ Given(purpose) => r.Purpose = purpose
    /\ Given(source) => r.Source = source

\* sum(cast(Quantity as integer)) over a group
RECURSIVE SumQuantity(_)
SumQuantity(S) ==
    IF S = {} THEN 0
    ELSE LET r == CHOOSE x \in S : TRUE
         IN  r.Quantity + SumQuantity(S \ {r})

\* group by Exporter, Importer, Unit: the keys, and the row of a key
GroupKeys(S) ==
    {[Exporter |-> r.Exporter, Importer |-> r.Importer, Unit |-> r.Unit] : r \in S}

GroupRow(S, k) ==
    [Exporter |-> k.Exporter, Importer |-> k.Importer, Unit |-> k.Unit,
     Weight |-> SumQuantity({r \in S : /\ r.Exporter = k.Exporter
                                       /\ r.Importer = k.Importer
                                       /\ r.Unit = k.Unit})]

\* the orders a result without ORDER BY may come in
Orderings(R) == {s \in [1..Cardinality(R) -> R] : Range(s) = R}

\* the frames filter_by_taxon may return: pd.DataFrame() when the statement
\* does not parse, else one row per group
QueryResults(db, taxon, year_range, term, purpose, source) ==
    IF ParserException(Clauses(year_range, term, purpose, source))
    THEN {<<>>}
    ELSE LET M == {r \in db : Matches(r, taxon, year_range, term, purpose, source)}
         IN  Orderings({GroupRow(M, k) : k \in GroupKeys(M)})

\* a call that returned result
Answered(op, args, result) ==
    [op |-> op, args |-> args, raised |-> NoError, result |-> result]

\* main runs the query once in a render cycle
filter_by_taxon(db, taxon, year_range, term, purpose, source) ==
    /\ calls = 0
    /\ calls' = calls + 1
    /\ \E rows \in QueryResults(db, taxon, year_range, term, purpose, source) :
           last' = Answered("filter_by_taxon",
                            <<db, taxon, year_range, term, purpose, source>>,
                            rows)
    /\ UNCHANGED <<data, graph, map>>

NextQuery ==
    \E db \in Datasets, taxon \in Taxa, year_range \in YearRanges,
       term \in Terms, purpose \in Purposes, source \in Sources :
        filter_by_taxon(db, taxon, year_range, term, purpose, source)

SpecQuery == InitReload /\ [][NextQuery]_vars

----------------------------------------------------------------------------
(* One render cycle of main: the controls, the query and, when the query   *)
(* has rows, the graph and the map.                                        *)

\* purpose label -> purpose code
inverse_purpose_map ==
    ("Commercial" :> "T") @@ ("Hunting trophy" :> "H")

\* what the widgets of controls hold: taxon, year slider, term, purpose
Selections ==
    [taxon : Taxa,
     year_range : {[lo |-> 1975, hi |-> 2024], [lo |-> 2000, hi |-> 2003]},
     term : {"ALL", "skins"},
     purpose_choice : {"ALL", "Commercial"}]

\* what the widgets of graph_options hold
Options ==
    [exporter : {"A", "B"}, importer : {"A", "B"}, weighted : BOOLEAN,
     centrality_method : {"Degree", "In-Degree", "Out-Degree",
                          "Betweenness", "Closeness"}]

\* return taxon, year_range, term, purpose
controls(sel) ==
    <<sel.taxon,
      sel.year_range,
      IF sel.term = "ALL" THEN Unset ELSE sel.term,
      IF sel.purpose_choice = "ALL" THEN Unset
      ELSE inverse_purpose_map[sel.purpose_choice]>>

\* centrality_method.lower().replace("-", "").replace(" ", "")
Normalise ==
    ("Degree" :> "degree") @@ ("In-Degree" :> "indegree")
    @@ ("Out-Degree" :> "outdegree") @@ ("Betweenness" :> "betweenness")
    @@ ("Closeness" :> "closeness")

\* render_graph, then render_map, on the builder holding rows
Render(rows, opt, done) ==
    LET g1 == from_pandas_edgelist(rows, opt.weighted)
        m == Normalise[opt.centrality_method]
    IN  /\ data' = [rows |-> rows]
        /\ IF CentralityError(m, g1) # NoError
           THEN /\ graph' = g1
                /\ map' = map
                /\ last' = [done EXCEPT !.raised = CentralityError(m, g1)]
           ELSE LET g2 == SetSizes(g1, Centrality(m, g1))
                    g3 == [g2 EXCEPT !.color =
                              [n \in NodeSet(g2) |->
                                  NodeColor(n, {opt.exporter}, {opt.importer})]]
                IN  /\ graph' = g3
                    /\ map' = [traces |-> Figure(g3, Countries, opt.exporter,
                                                 opt.importer)]
                    /\ last' = done

\* the exporters graph_options offers, and the importers it offers once the
\* exporter e is chosen: those with a row in the reference table
ExporterChoices(rows) ==
    {rows[i].Exporter : i \in DOMAIN rows} \cap
        {Countries[i].country : i \in DOMAIN Countries}

ImporterChoices(rows, e) ==
    ({rows[i].Importer : i \in DOMAIN rows} \cap
        {Countries[i].country : i \in DOMAIN Countries}) \ {e}

main(db, sel, opt) ==
    /\ calls = 0
    /\ calls' = calls + 1
    /\ LET r == controls(sel)
           done == Returned("main", <<db, sel>>)
       IN  IF Len(r) # 5
           THEN \* taxon, year_range, term, purpose, source = <4 values>
                /\ last' = Raised("main", <<db, sel>>, "ValueError")
                /\ UNCHANGED <<data, graph, map>>
           ELSE \E rows \in QueryResults(db, r[1], r[2], r[3], r[4], r[5]) :
                  IF rows = <<>>
                  THEN \* "No results, please try again."
                       /\ last' = done
                       /\ UNCHANGED <<data, graph, map>>
                  ELSE IF \/ ExporterChoices(rows) = {}
                          \/ /\ opt.exporter \in ExporterChoices(rows)
                             /\ ImporterChoices(rows, opt.exporter) = {}
                  THEN \* .values[0] of an empty selection
                       /\ data' = [rows |-> rows]
                       /\ last' = Raised("main", <<db, sel>>, "IndexError")
                       /\ UNCHANGED <<graph, map>>
                  ELSE /\ opt.exporter \in ExporterChoices(rows)
                       /\ opt.importer \in ImporterChoices(rows, opt.exporter)
                       /\ Render(rows, opt, done)

NextMain ==
    \E db \in Datasets, sel \in Selections, opt \in Options : main(db, sel, opt)

SpecMain == InitReload /\ [][NextMain]_vars

----------------------------------------------------------------------------
(* Vocabulary of the properties. *)

\* the last call was op and it returned
AfterOk(op) == last.op = op /\ last.raised = NoError

\* the codes and the (Exporter, Importer) pairs occurring in a table
TableCodes(t) ==
    {t[i].Exporter : i \in 1..Len(t)} \cup {t[i].Importer : i \in 1..Len(t)}
TablePairs(t) == {<<t[i].Exporter, t[i].Importer>> : i \in 1..Len(t)}

\* the index of the last row of t for the pair e
LastRow(t, e) ==
    CHOOSE i \in 1..Len(t) :
        /\ <<t[i].Exporter, t[i].Importer>> = e
        /\ \A j \in (i + 1)..Len(t) : <<t[j].Exporter, t[j].Importer>> # e

\* v lies in [0, k]; an eigenvector score is within [0, 1] by its norm
Within0(v, k) ==
    IF v.kind = "rat" THEN 0 <= v.num /\ v.num <= k * v.den
    ELSE v.times <= k

\* v = 100 * s
Hundredfold(v, s) ==
    IF s.kind = "rat"
    THEN v.kind = "rat" /\ v.num * s.den = 100 * s.num * v.den
    ELSE v = [kind |-> "eig", node |-> s.node, times |-> 100 * s.times]

ReferenceCodes == {Countries[i].country : i \in 1..Len(Countries)}

\* the line primitive of the i-th edge of EdgeView, and the node primitive
EdgeLine(i) == map.traces[i]
NodeMarkers == map.traces[Len(map.traces)]

----------------------------------------------------------------------------
(* C1 .. C10 *)

\* C1: every size that scale_nodes assigns lies in [0, 100] (every
\* centrality value in [0, 1]), reciprocated pairs and self-loops included.
C1_SizesWithinHundred ==
    graph # None => \A n \in DOMAIN graph.size : Within0(graph.size[n], 100)

\* C2: with an empty edge table the pipeline build_graph, scale_nodes,
\* color_nodes, build_map raises nothing; the graph has no nodes and no
\* edges and the figure is one node primitive of empty lists.
C2_EmptyPipelineCompletes ==
    (data # None /\ data.rows = <<>> /\ graph # None) =>
        /\ graph.nodes = <<>> /\ graph.edges = <<>>
        /\ last.raised = NoError
        /\ map # None =>
              /\ Len(map.traces) = 1
              /\ map.traces[1].mode = "markers"
              /\ map.traces[1].lon = <<>> /\ map.traces[1].lat = <<>>
              /\ map.traces[1].size = <<>> /\ map.traces[1].color = <<>>
              /\ map.traces[1].text = <<>>

\* C3: when the centrality computation fails, scale_nodes contains the
\* failure: no exception reaches the caller of scale_nodes.
C3_CentralityFailureContained ==
    (/\ last.op = "scale_nodes"
     /\ ~Falsy(graph)
     /\ last.args[1] \in centrality_methods
     /\ CentralityError(last.args[1], graph) # NoError)
    => last.raised = NoError

\* C4: the nodes of the built graph are exactly the Exporter and Importer
\* codes of the edge table and its edges exactly the (Exporter, Importer)
\* pairs, self-loops included, for either value of weighted.
C4_GraphIsTheTable ==
    graph # None =>
        /\ NodeSet(graph) = TableCodes(data.rows)
        /\ EdgeSet(graph) = TablePairs(data.rows)
        /\ Len(graph.nodes) = Cardinality(TableCodes(data.rows))
        /\ Len(graph.edges) = Cardinality(TablePairs(data.rows))

C4_Witness ==
    /\ AfterOk("build_graph")
    /\ Cardinality(EdgeSet(graph)) = 2
    /\ \E n \in NodeSet(graph) : <<n, n>> \in EdgeSet(graph)

\* C5: after scale_nodes(m) returns for a recognised m, every node has
\* size = 100 * its score under m (no node is without a score); with the
\* edges A->B, B->ZZ and degree, B is larger than A and than ZZ.
C5_SizeIsHundredTimesScore ==
    (AfterOk("scale_nodes") /\ last.args[1] \in centrality_methods) =>
        /\ DOMAIN Centrality(last.args[1], graph) = NodeSet(graph)
        /\ DOMAIN graph.size = NodeSet(graph)
        /\ \A n \in NodeSet(graph) :
              Hundredfold(graph.size[n], Centrality(last.args[1], graph)[n])
        /\ (last.args[1] = "degree"
            /\ EdgeSet(graph) = {<<"A", "B">>, <<"B", "ZZ">>}) =>
              /\ graph.size["B"] = Rat(100, 1)
              /\ graph.size["A"] = Rat(50, 1)
              /\ graph.size["ZZ"] = Rat(50, 1)
              /\ RLess(graph.size["A"], graph.size["B"])
              /\ RLess(graph.size["ZZ"], graph.size["B"])

C5_Witness ==
    /\ AfterOk("scale_nodes")
    /\ last.args[1] = "degree"
    /\ EdgeSet(graph) = {<<"A", "B">>, <<"B", "ZZ">>}

\* C6: after color_nodes(exporters, importers) every node has one colour:
\* the exporter colour if it is in exporters (also when in importers too),
\* else the importer colour if it is in importers, else the default colour.
C6_ColorPriority ==
    AfterOk("color_nodes") =>
        /\ DOMAIN graph.color = NodeSet(graph)
        /\ \A n \in NodeSet(graph) :
              LET ex == n \in last.args[1]
                  im == n \in last.args[2]
              IN  /\ ex => graph.color[n] = "#1f77b4"
                  /\ (~ex /\ im) => graph.color[n] = "#ff7f0e"
                  /\ (~ex /\ ~im) => graph.color[n] = "rgb(0,0,0)"

C6_Witness ==
    /\ AfterOk("color_nodes")
    /\ \E n \in NodeSet(graph) : n \in last.args[1] /\ n \in last.args[2]
    /\ \E n \in NodeSet(graph) : n \notin last.args[1] /\ n \notin last.args[2]

\* C7: build_map colours each edge (src, dst) by the first rule that
\* matches: highlighted pair, highlighted exporter, highlighted importer,
\* grey; the pair colour differs from the other three.
C7_EdgeColorRules ==
    AfterOk("build_map") =>
        /\ Len(map.traces) = Len(EdgeView(graph)) + 1
        /\ \A i \in 1..Len(EdgeView(graph)) :
              LET src == EdgeView(graph)[i][1]
                  dst == EdgeView(graph)[i][2]
                  ex == src = last.args[1]
                  im == dst = last.args[2]
                  c == EdgeLine(i).color
              IN  /\ (ex /\ im) => c = "#9467bd"
                  /\ (ex /\ ~im) => c = "#1f77b4"
                  /\ (~ex /\ im) => c = "#ff7f0e"
                  /\ (~ex /\ ~im) => c = "grey"
        /\ PairEdgeColor \notin
              {ExporterEdgeColor, ImporterEdgeColor, DefaultEdgeColor}

C7_Witness ==
    /\ AfterOk("build_map")
    /\ \E i \in 1..Len(EdgeView(graph)) : EdgeLine(i).color = PairEdgeColor
    /\ \E i \in 1..Len(EdgeView(graph)) : EdgeLine(i).color = ExporterEdgeColor

\* C8: build_map gives every edge the width max(1, Weight * 0.01) when it
\* carries a Weight and 1 when it carries none; no width is below 1.
C8_EdgeWidthFloor ==
    AfterOk("build_map") =>
        \A i \in 1..Len(EdgeView(graph)) :
            LET e == EdgeView(graph)[i]
                w == EdgeLine(i).width
            IN  /\ w.num >= w.den
                /\ e \notin DOMAIN graph.Weight => w = Rat(1, 1)
                /\ e \in DOMAIN graph.Weight =>
                      IF graph.Weight[e] > 100
                      THEN w.num * 100 = graph.Weight[e] * w.den
                      ELSE w = Rat(1, 1)

C8_Witness ==
    /\ AfterOk("build_map")
    /\ \E i \in 1..Len(EdgeView(graph)) :
          /\ EdgeView(graph)[i] \in DOMAIN graph.Weight
          /\ graph.Weight[EdgeView(graph)[i]] = 0
          /\ EdgeLine(i).width = Rat(1, 1)
    /\ \E i \in 1..Len(EdgeView(graph)) : EdgeLine(i).width = Rat(5, 2)

\* C9: build_map never raises on a built graph; a node without a row in
\* the reference table is placed at (0, 0) with label "XX", and every edge
\* still has its line primitive, that endpoint at (0, 0).
C9_MissingCountryFallback ==
    /\ (last.op = "build_map" /\ graph # None) => last.raised = NoError
    /\ AfterOk("build_map") =>
          /\ Len(map.traces) = Len(graph.edges) + 1
          /\ \A i \in 1..Len(graph.nodes) :
                graph.nodes[i] \notin ReferenceCodes =>
                    /\ NodeMarkers.lon[i] = 0 /\ NodeMarkers.lat[i] = 0
                    /\ NodeMarkers.text[i] = "XX"
          /\ \A i \in 1..Len(EdgeView(graph)) :
                /\ EdgeLine(i).mode = "lines"
                /\ EdgeView(graph)[i][1] \notin ReferenceCodes =>
                      EdgeLine(i).lon[1] = 0 /\ EdgeLine(i).lat[1] = 0
                /\ EdgeView(graph)[i][2] \notin ReferenceCodes =>
                      EdgeLine(i).lon[2] = 0 /\ EdgeLine(i).lat[2] = 0

C9_Witness ==
    /\ AfterOk("build_map")
    /\ \E i \in 1..Len(EdgeView(graph)) :
          /\ EdgeView(graph)[i][1] \notin ReferenceCodes
          /\ EdgeView(graph)[i][2] \in ReferenceCodes
    /\ \E i \in 1..Len(EdgeView(graph)) :
          EdgeView(graph)[i][2] \notin ReferenceCodes

\* C10: build_graph(weighted=False) leaves every edge without a Weight
\* attribute whatever the Weight column holds; build_graph(weighted=True)
\* gives every edge the Weight of its row (of the last row of its pair).
C10_WeightedToggle ==
    AfterOk("build_graph") =>
        IF last.args[1]
        THEN /\ DOMAIN graph.Weight = EdgeSet(graph)
             /\ \A e \in EdgeSet(graph) :
                   graph.Weight[e] = data.rows[LastRow(data.rows, e)].Weight
        ELSE DOMAIN graph.Weight = {}

C10_Witness ==
    /\ AfterOk("build_graph")
    /\ last.args[1]
    /\ \E e \in EdgeSet(graph), f \in EdgeSet(graph) :
          graph.Weight[e] = 0 /\ graph.Weight[f] = 250

----------------------------------------------------------------------------
(* C11 .. C20 *)

\* C11: scale_nodes with a method name outside the recognised set, on a
\* built graph, raises nothing (and changes nothing).
C11_UnknownMethodIsNoOp ==
    (/\ last.op = "scale_nodes"
     /\ graph # None
     /\ last.args[1] \notin centrality_methods)
    => last.raised = NoError

\* C12: scale_nodes on a builder on which build_graph never ran raises an
\* exception and changes nothing: the graph stays absent, no figure appears,
\* the data are untouched.
C12_ScaleBeforeBuildRaises ==
    [][(/\ graph = None
        /\ calls' = calls + 1
        /\ last'.op = "scale_nodes")
       => (/\ last'.raised # NoError
           /\ graph' = None
           /\ map = None /\ map' = None
           /\ data' = data)]_vars

C12_Witness ==
    /\ last.op = "scale_nodes"
    /\ last.raised = "ValueError"
    /\ graph = None
    /\ map = None
    /\ data # None

\* the position and the label the reference table gives a code: those of
\* its first row for the code, (0, 0) and "XX" when it has none
Resolved(code) ==
    IF code \in ReferenceCodes
    THEN LET i == CHOOSE i \in 1..Len(Countries) :
                      /\ Countries[i].country = code
                      /\ \A j \in 1..(i - 1) : Countries[j].country # code
         IN  [lon |-> Countries[i].longitude, lat |-> Countries[i].latitude,
              name |-> Countries[i].name]
    ELSE [lon |-> 0, lat |-> 0, name |-> "XX"]

\* C13: the figure build_map returns holds exactly one line primitive per
\* edge of the graph, from the resolved position of its source to that of
\* its target, followed by exactly one node primitive whose lon, lat, size,
\* colour and label lists have one entry per node, the i-th entries all
\* describing the i-th node.
C13_FigureShape ==
    AfterOk("build_map") =>
        LET ev == EdgeView(graph)
            n == Len(graph.nodes)
        IN  /\ Len(ev) = Cardinality(EdgeSet(graph))
            /\ Range(ev) = EdgeSet(graph)
            /\ Len(map.traces) = Len(ev) + 1
            /\ \A i \in 1..Len(ev) :
                  /\ EdgeLine(i).mode = "lines"
                  /\ EdgeLine(i).lon
                         = <<Resolved(ev[i][1]).lon, Resolved(ev[i][2]).lon>>
                  /\ EdgeLine(i).lat
                         = <<Resolved(ev[i][1]).lat, Resolved(ev[i][2]).lat>>
            /\ NodeMarkers.mode = "markers"
            /\ Len(NodeMarkers.lon) = n /\ Len(NodeMarkers.lat) = n
            /\ Len(NodeMarkers.size) = n /\ Len(NodeMarkers.color) = n
            /\ Len(NodeMarkers.text) = n
            /\ \A i \in 1..n :
                  LET node == graph.nodes[i]
                  IN  /\ NodeMarkers.lon[i] = Resolved(node).lon
                      /\ NodeMarkers.lat[i] = Resolved(node).lat
                      /\ NodeMarkers.text[i] = Resolved(node).name
                      /\ node \in DOMAIN graph.size
                            => NodeMarkers.size[i] = graph.size[node]
                      /\ node \in DOMAIN graph.color
                            => NodeMarkers.color[i] = graph.color[node]

C13_Witness ==
    /\ AfterOk("build_map")
    /\ Len(graph.edges) = 2
    /\ Len(graph.nodes) = 3
    /\ DOMAIN graph.size = NodeSet(graph)
    /\ \E a \in NodeSet(graph), b \in NodeSet(graph) :
           graph.size[a] # graph.size[b]

\* C14: in the figure of build_map a node's size is its size attribute when
\* it has one and 8 when it has none, and its colour is its color attribute
\* when it has one and "grey" when it has none; a graph that was built but
\* never scaled or coloured shows every node with size 8 and colour grey.
C14_RenderDefaults ==
    AfterOk("build_map") =>
        /\ \A i \in 1..Len(graph.nodes) :
              LET node == graph.nodes[i]
              IN  /\ NodeMarkers.size[i] =
                        IF node \in DOMAIN graph.size THEN graph.size[node]
                        ELSE Rat(8, 1)
                  /\ NodeMarkers.color[i] =
                        IF node \in DOMAIN graph.color THEN graph.color[node]
                        ELSE "grey"
        /\ (DOMAIN graph.size = {} /\ DOMAIN graph.color = {}) =>
              /\ \A i \in DOMAIN NodeMarkers.size :
                    NodeMarkers.size[i] = Rat(8, 1)
              /\ \A i \in DOMAIN NodeMarkers.color :
                    NodeMarkers.color[i] = "grey"

C14_Witness ==
    /\ AfterOk("build_map")
    /\ Len(graph.nodes) = 3
    /\ DOMAIN graph.size = NodeSet(graph)
    /\ DOMAIN graph.color = {}
    /\ \E i \in 1..3 : /\ NodeMarkers.size[i] # Rat(8, 1)
                       /\ NodeMarkers.color[i] = "grey"

\* C15: build_map leaves the graph as it found it (nodes, edges, weights,
\* sizes, colours) and the data too; of the builder's state it writes only
\* the stored figure.
C15_MapLeavesGraphAlone ==
    [][(calls' = calls + 1 /\ last'.op = "build_map")
       => (/\ graph' = graph
           /\ data' = data
           /\ last'.raised = NoError => map' # None)]_vars

C15_Witness ==
    /\ AfterOk("build_map")
    /\ map # None
    /\ Len(graph.nodes) >= 2
    /\ DOMAIN graph.Weight # {}
    /\ DOMAIN graph.size = {}
    /\ DOMAIN graph.color = {}

\* the sizes of g are exactly 100 * the scores of method m on g
SizesAre(g, m) ==
    /\ DOMAIN g.size = NodeSet(g)
    /\ \A n \in NodeSet(g) : Hundredfold(g.size[n], Centrality(m, g)[n])

\* C16 (as stated): whenever a node has a size, the size is 100 * its
\* centrality in the current graph under the method named in the most
\* recent scale_nodes call since the last build_graph.
C16_SizesNeverStale ==
    (graph # None /\ last.op = "scale_nodes" /\ DOMAIN graph.size # {}) =>
        /\ last.args[1] \in centrality_methods
        /\ CentralityError(last.args[1], graph) = NoError
        /\ SizesAre(graph, last.args[1])

\* C16 (amended): the sizes are those of the most recent scale_nodes call
\* since the last build_graph that named a recognised method and returned:
\* such a call sets every size to 100 * the score under its method,
\* build_graph removes every size, and every other call (scale_nodes with an
\* unrecognised name or raising, color_nodes, build_map) leaves sizes, nodes
\* and edges as they were.
C16_SizesFollowLastEffectiveScale ==
    [][calls' = calls + 1 =>
          IF /\ last'.op = "scale_nodes" /\ last'.raised = NoError
             /\ last'.args[1] \in centrality_methods
          THEN SizesAre(graph', last'.args[1])
          ELSE IF last'.op = "build_graph" /\ last'.raised = NoError
          THEN DOMAIN graph'.size = {}
          ELSE \/ graph = None /\ graph' = None
               \/ /\ graph # None /\ graph' # None
                  /\ graph'.size = graph.size
                  /\ graph'.nodes = graph.nodes
                  /\ graph'.edges = graph.edges]_vars

C16_Witness ==
    /\ last = Returned("scale_nodes", <<"in-degree">>)
    /\ graph # None
    /\ SizesAre(graph, "degree")
    /\ ~SizesAre(graph, "indegree")

\* C17: immediately after build_graph no node carries a size or a colour
\* and no node, edge or weight of the replaced graph remains unless the
\* current edge table (and the weighted flag) puts it there, whatever was
\* done to the replaced graph.
C17_RebuildIsFresh ==
    [][(calls' = calls + 1 /\ last'.op = "build_graph"
                           /\ last'.raised = NoError)
       => (/\ DOMAIN graph'.size = {}
           /\ DOMAIN graph'.color = {}
           /\ NodeSet(graph') \subseteq TableCodes(data'.rows)
           /\ EdgeSet(graph') \subseteq TablePairs(data'.rows)
           /\ ~last'.args[1] => DOMAIN graph'.Weight = {}
           /\ \A e \in DOMAIN graph'.Weight :
                  graph'.Weight[e] = data'.rows[LastRow(data'.rows, e)].Weight)]_vars

\* a rebuild from a new table of a graph that had sizes and whose nodes and
\* edges are not all in the new table
C17_Witness ==
    /\ AfterOk("build_graph")
    /\ NodeSet(graph) = TableCodes(data.rows)
    /\ EdgeSet(graph) = TablePairs(data.rows)
    /\ last.replaced # None
    /\ DOMAIN last.replaced.size # {}
    /\ ~(NodeSet(last.replaced) \subseteq TableCodes(data.rows))
    /\ ~(EdgeSet(last.replaced) \subseteq TablePairs(data.rows))

\* the pair of a row, and the quantity the records of db that the filters
\* let through carry for a pair
PairOf(r) == <<r.Exporter, r.Importer>>

PairQuantity(db, a, p) ==
    SumQuantity({r \in db : /\ PairOf(r) = p
                            /\ Matches(r, a[2], a[3], a[4], a[5], a[6])})

\* C18: the table filter_by_taxon returns has at most one row per
\* (Exporter, Importer) pair, whose Weight is the summed quantity of the
\* pair's matching records, records differing in Unit included.
C18_OneRowPerPair ==
    last.op = "filter_by_taxon" =>
        /\ \A i \in DOMAIN last.result, j \in DOMAIN last.result :
               PairOf(last.result[i]) = PairOf(last.result[j]) => i = j
        /\ \A i \in DOMAIN last.result :
               last.result[i].Weight
                   = PairQuantity(last.args[1], last.args, PairOf(last.result[i]))

\* the six method names of the specification
SpecMethodNames ==
    {"degree", "in-degree", "out-degree", "closeness", "betweenness",
     "eigenvector"}

\* the measure named m is defined on g (the power iteration converges)
Defined(m, g) == m = "eigenvector" => PowerIterationConverges(g)

\* C19 (as stated): scale_nodes called with one of the six names of the
\* specification, on a non-empty graph on which the measure is defined,
\* sets a size on every node.
C19_SpecNamesRecognised ==
    (/\ last.op = "scale_nodes"
     /\ ~Falsy(graph)
     /\ last.args[1] \in SpecMethodNames
     /\ Defined(last.args[1], graph))
    => DOMAIN graph.size = NodeSet(graph)

\* C19 (amended): the six names scale_nodes recognises by exact match are
\* degree, indegree, outdegree, closeness, betweenness and eigenvector:
\* called with one of them on a non-empty graph on which the measure is
\* defined, it returns with a size on every node.
C19_KeysRecognised ==
    (/\ last.op = "scale_nodes"
     /\ ~Falsy(graph)
     /\ last.args[1] \in {"degree", "indegree", "outdegree", "closeness",
                          "betweenness", "eigenvector"}
     /\ Defined(last.args[1], graph))
    => /\ last.raised = NoError
       /\ DOMAIN graph.size = NodeSet(graph)

C19_Witness ==
    /\ AfterOk("scale_nodes")
    /\ last.args[1] = "indegree"
    /\ Len(graph.nodes) = 3
    /\ DOMAIN graph.size = NodeSet(graph)

\* C20: in every render cycle the controls supply the five filter
\* parameters main unpacks, so that the cycle goes on to the query: the
\* unpacking does not fail.
C20_ControlsSupplyFive ==
    last.op = "main" =>
        /\ Len(controls(last.args[2])) = 5
        /\ last.raised # "ValueError"

====
